---- MODULE Spec2Model ----
(***************************************************************************)
(* Plan execution engine of the agno service: ExecutorAgent._execute_plan  *)
(* walking an ExecutionPlan step by step, checking dependencies, injecting *)
(* upstream results and dispatching script steps to the Windmill client.   *)
(***************************************************************************)
EXTENDS Integers, Sequences, FiniteSets, TLC

(* ---------------------------------------------------------------------- *)
(* Bounds of the model                                                     *)
(* ---------------------------------------------------------------------- *)
\* longest plan explored
MaxSteps == 2
\* step numbers and depends_on entries are drawn from 1..MaxStepNum
MaxStepNum == 2

(* ---------------------------------------------------------------------- *)
(* Python values.  A value is None, a string/JSON atom, or a dict; the tag *)
(* keeps values of different Python types apart.                           *)
(* ---------------------------------------------------------------------- *)
None == [tag |-> "none"]
Atom(a) == [tag |-> "atom", v |-> a]
Dict(f) == [tag |-> "dict", v |-> f]

\* Python truthiness of an Optional[str]: None and "" are falsy
Truthy(x) == x # None /\ x # Atom("")

\* the enum TaskStatus (PLANNING is never used by the executor)
PENDING == "pending"
EXECUTING == "executing"
COMPLETED == "completed"
FAILED == "failed"

\* f"step_{dep}_result"
StepResultKey(dep) == "step_" \o ToString(dep) \o "_result"

\* f"Step {step.step_number} dependencies not met"
DepsNotMetMessage(n) == "Step " \o ToString(n) \o " dependencies not met"

\* f"Step {step.step_number} failed: {str(e)}"
StepFailedMessage(n, cause) == "Step " \o ToString(n) \o " failed: " \o cause

(* ---------------------------------------------------------------------- *)
(* Inputs: the plans handed to _execute_plan                               *)
(* ---------------------------------------------------------------------- *)
EmptyParams == [k \in {} |-> None]
\* the shape the planner gives most steps: {"user_id": user_id}
UserParams == [k \in {"user_id"} |-> Atom("u")]
\* a caller that already supplies a key named like an injected one
ClashParams == [k \in {"user_id", StepResultKey(1)} |-> IF k = "user_id" THEN Atom("u") ELSE Atom("caller")]

\* script bound to the step at position k, when it has one
ScriptPathAt(k) == Atom("f/script_" \o ToString(k))

\* ExecutionStep as constructed: status pending, result and error unset
NewStep(num, script, params, deps) ==
    [step_number |-> num, script_path |-> script, input_params |-> params,
     depends_on |-> deps, status |-> PENDING, result |-> None, error |-> None]

\* plans of n steps with arbitrary numbers and dependencies, planner-shaped params
StructPlans(n) ==
    { [k \in 1..n |-> NewStep(nums[k], IF scripted[k] THEN ScriptPathAt(k) ELSE None,
                               UserParams, deps[k])] :
        nums \in [1..n -> 1..MaxStepNum], scripted \in [1..n -> BOOLEAN],
        deps \in [1..n -> SUBSET (1..MaxStepNum)] }

\* plans of n steps numbered by position (as the planner numbers them), any params
ParamPlans(n) ==
    { [k \in 1..n |-> NewStep(k, IF scripted[k] THEN ScriptPathAt(k) ELSE None,
                               params[k], deps[k])] :
        scripted \in [1..n -> BOOLEAN],
        params \in [1..n -> {EmptyParams, UserParams, ClashParams}],
        deps \in [1..n -> SUBSET (1..MaxStepNum)] }

\* ExecutionPlan as constructed: status pending
NewPlan(steps) == [task_id |-> "t1", status |-> PENDING, steps |-> steps]

(* ---------------------------------------------------------------------- *)
(* What windmill_client.run_script(wait=True) can hand back                *)
(* ---------------------------------------------------------------------- *)
Payloads == {Atom("r1"), Atom("r2")}

\* duration_ms keeps its default unless the client sets it
WindmillJobResult(id, status, result, err) ==
    [job_id |-> id, status |-> status, result |-> result, error |-> err, duration_ms |-> 0]

JobResults ==
    { WindmillJobResult("j", "completed", p, None) : p \in Payloads }
    \cup { WindmillJobResult("j", "failed", None, Atom("Unexpected status: 500")),
           WindmillJobResult("", "failed", None, Atom("")),
           WindmillJobResult("j", "timeout", None, Atom("Job timed out after 300s")) }

\* the wait argument each caller of run_script passes
WaitArg_NoWait(who) == FALSE

WaitArg(who) == TRUE

\* exceptions run_script lets through (it only catches httpx.HTTPError)
RaisedMessages == {"Expecting value"}

(* ---------------------------------------------------------------------- *)
(* State                                                                   *)
(* ---------------------------------------------------------------------- *)
VARIABLES
    plan,             \* the ExecutionPlan being executed
    pc,               \* position of _execute_plan
    idx,              \* position in plan.steps of the loop variable `step`
    completed_steps,  \* local of _execute_plan
    step_results,     \* local of _execute_plan: step_number -> result
    final_result,     \* local of _execute_plan
    error,            \* local of _execute_plan
    input_params,     \* local of _execute_step: the prepared input
    response,         \* the TaskResponse returned, None before the return
    jobs,             \* history: every run_script call and what it handed back, in order
    started           \* history: positions set to executing, in order

\* one call of WindmillClient.run_script
VARIABLES
    cpc,              \* position of run_script / _wait_for_job
    caller,           \* who called run_script
    wait,             \* argument of run_script
    timeout,          \* argument of run_script
    now,              \* the event loop's clock, in seconds
    job_id,           \* local of run_script
    start_time,       \* local of _wait_for_job
    elapsed,          \* local of _wait_for_job
    cresult,          \* what run_script handed back, None before it returns
    post,             \* history: the submit POST requests and their outcomes
    polls,            \* history: the status GET requests and their outcomes
    sleeps            \* history: number of asyncio.sleep calls completed

cvars == <<cpc, caller, wait, timeout, now, job_id, start_time, elapsed, cresult,
           post, polls, sleeps>>

\* the service around _execute_plan: create_task, the agents' process methods
\* and the event loop running two process calls
VARIABLES
    tpc,              \* position of create_task
    request,          \* the TaskRequest given to create_task
    coord_result,     \* local of create_task
    planned,          \* the ExecutionPlan the planner built
    message,          \* context of the AgentMessage given to ExecutorAgent.process
    reply,            \* context of the AgentMessage process returned, None before
    task_response,    \* what create_task answered, None before
    running,          \* the process call the event loop is running
    parked,           \* frame of the process call suspended or not yet started
    heap,             \* the ExecutionPlan objects built so far, by object id
    plan_ref          \* object id of the local `plan`, 0 before it is bound

svars == <<tpc, request, coord_result, planned, message, reply, task_response,
           running, parked, heap, plan_ref>>

vars == <<plan, pc, idx, completed_steps, step_results, final_result, error,
          input_params, response, jobs, started, cvars, svars>>

NoResults == [n \in {} |-> None]

InitWith(steps) ==
    /\ plan = NewPlan(steps)
    /\ pc = "call"
    /\ idx = 1
    /\ completed_steps = 0
    /\ step_results = NoResults
    /\ final_result = None
    /\ error = None
    /\ input_params = EmptyParams
    /\ response = None
    /\ jobs = <<>>
    /\ started = <<>>

\* no run_script call is being followed
ClientIdle ==
    /\ cpc = "idle"
    /\ caller = "_execute_step"
    /\ wait = TRUE
    /\ timeout = 0
    /\ now = 0
    /\ job_id = ""
    /\ start_time = 0
    /\ elapsed = 0
    /\ cresult = None
    /\ post = <<>>
    /\ polls = <<>>
    /\ sleeps = 0

\* _execute_plan is called directly: no endpoint, no message, one coroutine
ServiceIdle ==
    /\ tpc = "idle"
    /\ request = None
    /\ coord_result = None
    /\ planned = None
    /\ message = None
    /\ reply = None
    /\ task_response = None
    /\ running = 1
    /\ parked = None
    /\ heap = <<>>
    /\ plan_ref = 0

Init ==
    \E n \in 0..MaxSteps : \E steps \in StructPlans(n) :
        InitWith(steps) /\ ClientIdle /\ ServiceIdle

InitParams ==
    \E n \in 0..MaxSteps : \E steps \in ParamPlans(n) :
        InitWith(steps) /\ ClientIdle /\ ServiceIdle

(* ---------------------------------------------------------------------- *)
(* ExecutorAgent                                                           *)
(* ---------------------------------------------------------------------- *)
Step == plan.steps[idx]

InLoop == pc = "loop" /\ idx <= Len(plan.steps)

\* `for step in plan.steps`: the step after position i
NextIndex_Skip(i) == i + 2

NextIndex(i) == i + 1

\* _check_dependencies
CheckDependencies_Skip(step, completed_results) == TRUE

CheckDependencies(step, completed_results) ==
    \A dep \in step.depends_on : dep \in DOMAIN completed_results

\* _execute_step, lines 130-133: copy of input_params with the results injected
PrepareInput_NoInject(step, previous_results) == step.input_params

PrepareInput(step, previous_results) ==
    LET injected == { dep \in step.depends_on : dep \in DOMAIN previous_results }
        keys == DOMAIN step.input_params \cup { StepResultKey(dep) : dep \in injected }
    IN  [k \in keys |->
            IF \E dep \in injected : k = StepResultKey(dep)
            THEN previous_results[CHOOSE dep \in injected : k = StepResultKey(dep)]
            ELSE step.input_params[k]]

\* result.error or "Script execution failed"
ErrorCause_Raw(result) == result.error.v

ErrorCause(result) ==
    IF Truthy(result.error) THEN result.error.v ELSE "Script execution failed"

\* TaskStatus.COMPLETED if not error else TaskStatus.FAILED
ResponseStatus_ByCount(err) == IF completed_steps > 0 THEN COMPLETED ELSE FAILED

ResponseStatus_NeedsSteps(err) ==
    IF ~Truthy(err) /\ plan.steps # <<>> THEN COMPLETED ELSE FAILED

ResponseStatus(err) == IF ~Truthy(err) THEN COMPLETED ELSE FAILED

TaskResponse(task_id, status, result, err, steps_completed, total_steps) ==
    [task_id |-> task_id, status |-> status, result |-> result, error |-> err,
     steps_completed |-> steps_completed, total_steps |-> total_steps]

SetStep(fields) == [plan EXCEPT !.steps[idx] = fields]

\* _execute_plan entry: locals initialised, plan.status = EXECUTING
Enter ==
    /\ pc = "call"
    /\ plan' = [plan EXCEPT !.status = EXECUTING]
    /\ pc' = "loop"
    /\ UNCHANGED <<idx, completed_steps, step_results, final_result, error,
                   input_params, response, jobs, started>>
    /\ UNCHANGED <<cvars, svars>>

\* the dependency check fails: error set, break
DependenciesNotMet ==
    /\ InLoop
    /\ ~CheckDependencies(Step, step_results)
    /\ error' = Atom(DepsNotMetMessage(Step.step_number))
    /\ pc' = "finish"
    /\ UNCHANGED <<plan, idx, completed_steps, step_results, final_result,
                   input_params, response, jobs, started>>
    /\ UNCHANGED <<cvars, svars>>

\* the dependency check passes: step.status = EXECUTING
BeginStep_NoMark ==
    /\ InLoop
    /\ CheckDependencies(Step, step_results)
    /\ started' = Append(started, idx)
    /\ pc' = "execute"
    /\ UNCHANGED <<plan, idx, completed_steps, step_results, final_result, error,
                   input_params, response, jobs>>
    /\ UNCHANGED <<cvars, svars>>

BeginStep ==
    /\ InLoop
    /\ CheckDependencies(Step, step_results)
    /\ plan' = SetStep([Step EXCEPT !.status = EXECUTING])
    /\ started' = Append(started, idx)
    /\ pc' = "execute"
    /\ UNCHANGED <<idx, completed_steps, step_results, final_result, error,
                   input_params, response, jobs>>
    /\ UNCHANGED <<cvars, svars>>

\* the try body after _execute_step returned `result`
StepCompleted_KeepFirst(result) ==
    /\ plan' = SetStep([Step EXCEPT !.status = COMPLETED, !.result = result])
    /\ step_results' =
          [n \in DOMAIN step_results \cup {Step.step_number} |->
              IF n = Step.step_number THEN result ELSE step_results[n]]
    /\ completed_steps' = completed_steps + 1
    /\ final_result' = IF final_result = None THEN result ELSE final_result
    /\ idx' = NextIndex(idx)
    /\ pc' = "loop"
    /\ UNCHANGED <<error, response, started>>

StepCompleted_NoCount(result) ==
    /\ plan' = SetStep([Step EXCEPT !.status = COMPLETED, !.result = result])
    /\ step_results' =
          [n \in DOMAIN step_results \cup {Step.step_number} |->
              IF n = Step.step_number THEN result ELSE step_results[n]]
    /\ final_result' = result
    /\ idx' = NextIndex(idx)
    /\ pc' = "loop"
    /\ UNCHANGED <<completed_steps, error, response, started>>

StepCompleted(result) ==
    /\ plan' = SetStep([Step EXCEPT !.status = COMPLETED, !.result = result])
    /\ step_results' =
          [n \in DOMAIN step_results \cup {Step.step_number} |->
              IF n = Step.step_number THEN result ELSE step_results[n]]
    /\ completed_steps' = completed_steps + 1
    /\ final_result' = result
    /\ idx' = NextIndex(idx)
    /\ pc' = "loop"
    /\ UNCHANGED <<error, response, started>>

\* the except branch for an exception whose str() is `cause`
StepFailed_Continue(cause) ==
    /\ plan' = SetStep([Step EXCEPT !.status = FAILED, !.error = Atom(cause)])
    /\ error' = Atom(StepFailedMessage(Step.step_number, cause))
    /\ idx' = NextIndex(idx)
    /\ pc' = "loop"
    /\ UNCHANGED <<completed_steps, step_results, final_result, response, started>>

StepFailed_KeepsInput(cause) ==
    /\ plan' = SetStep([Step EXCEPT !.status = FAILED, !.error = Atom(cause),
                                     !.result = Dict(Step.input_params)])
    /\ error' = Atom(StepFailedMessage(Step.step_number, cause))
    /\ pc' = "finish"
    /\ UNCHANGED <<idx, completed_steps, step_results, final_result, response, started>>

StepFailed(cause) ==
    /\ plan' = SetStep([Step EXCEPT !.status = FAILED, !.error = Atom(cause)])
    /\ error' = Atom(StepFailedMessage(Step.step_number, cause))
    /\ pc' = "finish"
    /\ UNCHANGED <<idx, completed_steps, step_results, final_result, response, started>>

\* _execute_step of a step without script_path: the prepared input is the result
Passthrough_Rejects ==
    /\ pc = "execute"
    /\ ~Truthy(Step.script_path)
    /\ input_params' = PrepareInput(Step, step_results)
    /\ StepFailed("No script path")
    /\ UNCHANGED jobs
    /\ UNCHANGED <<cvars, svars>>

Passthrough ==
    /\ pc = "execute"
    /\ ~Truthy(Step.script_path)
    /\ input_params' = PrepareInput(Step, step_results)
    /\ StepCompleted(Dict(input_params'))
    /\ UNCHANGED jobs
    /\ UNCHANGED <<cvars, svars>>

\* _execute_step of a step with script_path: run_script(script_path, args, wait=True)
SubmitScript_NoAwait ==
    /\ pc = "execute"
    /\ Truthy(Step.script_path)
    /\ input_params' = PrepareInput(Step, step_results)
    /\ jobs' = Append(jobs, [pos |-> idx, script_path |-> Step.script_path.v,
                             args |-> input_params',
                             wait |-> WaitArg("_execute_step"), outcome |-> None])
    /\ idx' = NextIndex(idx)
    /\ pc' = "loop"
    /\ UNCHANGED <<plan, completed_steps, step_results, final_result, error,
                   response, started>>
    /\ UNCHANGED <<cvars, svars>>

SubmitScript_InPlace ==
    /\ pc = "execute"
    /\ Truthy(Step.script_path)
    /\ input_params' = PrepareInput(Step, step_results)
    /\ plan' = SetStep([Step EXCEPT !.input_params = input_params'])
    /\ jobs' = Append(jobs, [pos |-> idx, script_path |-> Step.script_path.v,
                             args |-> input_params',
                             wait |-> WaitArg("_execute_step"), outcome |-> None])
    /\ pc' = "await"
    /\ UNCHANGED <<idx, completed_steps, step_results, final_result, error,
                   response, started>>
    /\ UNCHANGED <<cvars, svars>>

SubmitScript ==
    /\ pc = "execute"
    /\ Truthy(Step.script_path)
    /\ input_params' = PrepareInput(Step, step_results)
    /\ jobs' = Append(jobs, [pos |-> idx, script_path |-> Step.script_path.v,
                             args |-> input_params',
                             wait |-> WaitArg("_execute_step"), outcome |-> None])
    /\ pc' = "await"
    /\ UNCHANGED <<plan, idx, completed_steps, step_results, final_result, error,
                   response, started>>
    /\ UNCHANGED <<cvars, svars>>

\* run_script returns a WindmillJobResult
ScriptReturns_Resubmit ==
    /\ pc = "await"
    /\ \E result \in JobResults :
          /\ IF result.status = "completed"
             THEN StepCompleted(result.result)
             ELSE /\ pc' = "execute"
                  /\ UNCHANGED <<plan, idx, completed_steps, step_results, final_result,
                                 error, response, started>>
          /\ jobs' = [jobs EXCEPT ![Len(jobs)].outcome = result]
    /\ UNCHANGED input_params
    /\ UNCHANGED <<cvars, svars>>

ScriptReturns ==
    /\ pc = "await"
    /\ \E result \in JobResults :
          /\ IF result.status = "completed"
             THEN StepCompleted(result.result)
             ELSE StepFailed(ErrorCause(result))
          /\ jobs' = [jobs EXCEPT ![Len(jobs)].outcome = result]
    /\ UNCHANGED input_params
    /\ UNCHANGED <<cvars, svars>>

\* run_script raises
ScriptRaises_Escapes ==
    /\ pc = "await"
    /\ \E msg \in RaisedMessages :
          jobs' = [jobs EXCEPT ![Len(jobs)].outcome = [raised |-> msg]]
    /\ pc' = "raised"
    /\ UNCHANGED <<plan, idx, completed_steps, step_results, final_result, error,
                   response, started>>
    /\ UNCHANGED input_params
    /\ UNCHANGED <<cvars, svars>>

ScriptRaises ==
    /\ pc = "await"
    /\ \E msg \in RaisedMessages :
          /\ StepFailed(msg)
          /\ jobs' = [jobs EXCEPT ![Len(jobs)].outcome = [raised |-> msg]]
    /\ UNCHANGED input_params
    /\ UNCHANGED <<cvars, svars>>

\* after the loop: the TaskResponse is built and returned
Return ==
    /\ \/ pc = "loop" /\ idx > Len(plan.steps)
       \/ pc = "finish"
    /\ response' = TaskResponse(plan.task_id, ResponseStatus(error), final_result, error,
                                completed_steps, Len(plan.steps))
    /\ pc' = "done"
    /\ UNCHANGED <<plan, idx, completed_steps, step_results, final_result, error,
                   input_params, jobs, started>>
    /\ UNCHANGED <<cvars, svars>>

Next ==
    \/ Enter
    \/ DependenciesNotMet
    \/ BeginStep
    \/ Passthrough
    \/ SubmitScript
    \/ ScriptReturns
    \/ ScriptRaises
    \/ Return

Spec == Init /\ [][Next]_vars

SpecParams == InitParams /\ [][Next]_vars

(* ---------------------------------------------------------------------- *)
(* WindmillClient.run_script and _wait_for_job                             *)
(* ---------------------------------------------------------------------- *)
\* largest timeout argument explored, in seconds
MaxTimeout == 2
\* longest time one HTTP request takes, in seconds
MaxLatency == 1

\* asyncio.sleep(1)
PollInterval == 1
\* int(elapsed * 1000)
MsPerSecond == 1000

Callers == {"_execute_step", "execute_single_script", "direct"}

\* response.text of an accepted submission, character by character
PostTexts == { <<"\"", "j", "1", "\"">>, <<"j", "1">> }

RECURSIVE StripLeft(_)
StripLeft(text) ==
    IF text # <<>> /\ Head(text) = "\"" THEN StripLeft(Tail(text)) ELSE text

RECURSIVE StripRight(_)
StripRight(text) ==
    IF text # <<>> /\ text[Len(text)] = "\""
    THEN StripRight(SubSeq(text, 1, Len(text) - 1))
    ELSE text

RECURSIVE Join(_)
Join(text) == IF text = <<>> THEN "" ELSE Head(text) \o Join(Tail(text))

\* response.text.strip('"')
StripQuotes_Keep(text) == Join(text)

StripQuotes(text) == Join(StripRight(StripLeft(text)))

\* status codes for which raise_for_status raises
PostErrorCodes == {404, 500}

\* str(e) of the HTTPStatusError raised for a status code
StatusErrorMessage(code) == "HTTP status error " \o ToString(code)

\* str(e) of network errors (httpx timeouts have an empty message)
NetworkErrorMessages == {"All connection attempts failed", ""}

\* the ways the submit POST can go wrong, each with its str(e)
PostFailures ==
    { [kind |-> "status", code |-> c, message |-> StatusErrorMessage(c)] : c \in PostErrorCodes }
    \cup { [kind |-> "network", code |-> 0, message |-> m] : m \in NetworkErrorMessages }

\* body of a 200 that response.json() cannot parse
InvalidJson == [tag |-> "invalid"]

\* responses to the status GET
GetResponses ==
    { [status_code |-> 200, body |-> b] : b \in Payloads \cup {InvalidJson} }
    \cup { [status_code |-> c, body |-> None] : c \in {404, 500, 204} }

Latencies == 0..MaxLatency

\* f"Job timed out after {timeout}s"
TimeoutMessage(t) == "Job timed out after " \o ToString(t) \o "s"

\* f"Unexpected status: {response.status_code}"
UnexpectedStatusMessage(code) == "Unexpected status: " \o ToString(code)

\* if elapsed > timeout
TimedOut_Late(e, t) == e > t + 1

TimedOut(e, t) == e > t

\* duration_ms = int(elapsed * 1000)
DurationMs_Seconds(e) == e

DurationMs(e) == e * MsPerSecond

\* a run_script call by one of its callers; the executor is not followed
InitClient ==
    /\ InitWith(<<>>)
    /\ ServiceIdle
    /\ cpc = "call"
    /\ caller \in Callers
    /\ wait \in (IF caller = "direct" THEN BOOLEAN ELSE {WaitArg(caller)})
    /\ timeout \in 0..MaxTimeout
    /\ now = 0
    /\ job_id = ""
    /\ start_time = 0
    /\ elapsed = 0
    /\ cresult = None
    /\ post = <<>>
    /\ polls = <<>>
    /\ sleeps = 0

ExecutorUnchanged ==
    UNCHANGED <<plan, pc, idx, completed_steps, step_results, final_result, error,
                input_params, response, jobs, started, svars>>

\* run_script sends the POST
SendPost ==
    /\ cpc = "call"
    /\ post' = Append(post, [at |-> now, outcome |-> None])
    /\ cpc' = "posting"
    /\ UNCHANGED <<caller, wait, timeout, now, job_id, start_time, elapsed, cresult,
                   polls, sleeps>>
    /\ ExecutorUnchanged

\* the POST is accepted; without wait the job is reported running, with wait
\* _wait_for_job starts its clock
PostAccepted ==
    /\ cpc = "posting"
    /\ \E text \in PostTexts, latency \in Latencies :
          /\ now' = now + latency
          /\ job_id' = StripQuotes(text)
          /\ post' = [post EXCEPT ![Len(post)].outcome = [kind |-> "ok", text |-> text]]
          /\ IF ~wait
             THEN /\ cresult' = WindmillJobResult(job_id', "running", None, None)
                  /\ cpc' = "done"
                  /\ UNCHANGED start_time
             ELSE /\ start_time' = now'
                  /\ cpc' = "loop"
                  /\ UNCHANGED cresult
    /\ UNCHANGED <<caller, wait, timeout, elapsed, polls, sleeps>>
    /\ ExecutorUnchanged

\* the POST raises httpx.HTTPError (network error or raise_for_status)
PostFails_Retry ==
    /\ cpc = "posting"
    /\ \E failure \in PostFailures, latency \in Latencies :
          /\ now' = now + latency
          /\ post' = [post EXCEPT ![Len(post)].outcome = failure]
    /\ cpc' = "call"
    /\ UNCHANGED <<caller, wait, timeout, job_id, start_time, elapsed, cresult, polls, sleeps>>
    /\ ExecutorUnchanged

PostFails ==
    /\ cpc = "posting"
    /\ \E failure \in PostFailures, latency \in Latencies :
          /\ now' = now + latency
          /\ post' = [post EXCEPT ![Len(post)].outcome = failure]
          /\ cresult' = WindmillJobResult("", "failed", None, Atom(failure.message))
    /\ cpc' = "done"
    /\ UNCHANGED <<caller, wait, timeout, job_id, start_time, elapsed, polls, sleeps>>
    /\ ExecutorUnchanged

\* top of the while loop with the budget exhausted
LoopTimeout ==
    /\ cpc = "loop"
    /\ elapsed' = now - start_time
    /\ TimedOut(elapsed', timeout)
    /\ cresult' = WindmillJobResult(job_id, "timeout", None, Atom(TimeoutMessage(timeout)))
    /\ cpc' = "done"
    /\ UNCHANGED <<caller, wait, timeout, now, job_id, start_time, post, polls, sleeps>>
    /\ ExecutorUnchanged

\* top of the while loop within the budget: the status GET is sent
SendPoll ==
    /\ cpc = "loop"
    /\ elapsed' = now - start_time
    /\ ~TimedOut(elapsed', timeout)
    /\ polls' = Append(polls, [at |-> now, outcome |-> None])
    /\ cpc' = "polling"
    /\ UNCHANGED <<caller, wait, timeout, now, job_id, start_time, cresult, post, sleeps>>
    /\ ExecutorUnchanged

\* the GET is answered
PollAnswered(response_, latency) ==
    /\ now' = now + latency
    /\ polls' = [polls EXCEPT ![Len(polls)].outcome = response_]
    /\ UNCHANGED <<caller, wait, timeout, job_id, start_time, elapsed, post, sleeps>>
    /\ ExecutorUnchanged

\* 200 with a JSON body
PollCompleted ==
    /\ cpc = "polling"
    /\ \E r \in GetResponses, latency \in Latencies :
          /\ r.status_code = 200
          /\ r.body # InvalidJson
          /\ PollAnswered(r, latency)
          /\ cresult' = [WindmillJobResult(job_id, "completed", r.body, None)
                            EXCEPT !.duration_ms = DurationMs(elapsed)]
    /\ cpc' = "done"

\* 200 whose body response.json() rejects: the ValueError leaves run_script
PollInvalidJson ==
    /\ cpc = "polling"
    /\ \E r \in GetResponses, latency \in Latencies :
          /\ r.status_code = 200
          /\ r.body = InvalidJson
          /\ PollAnswered(r, latency)
    /\ cresult' = [raised |-> "Expecting value"]
    /\ cpc' = "done"

\* 404: job still running, sleep
PollNotFound_Fatal ==
    /\ cpc = "polling"
    /\ \E r \in GetResponses, latency \in Latencies :
          /\ r.status_code = 404
          /\ PollAnswered(r, latency)
          /\ cresult' = WindmillJobResult(job_id, "failed", None,
                                          Atom(UnexpectedStatusMessage(r.status_code)))
    /\ cpc' = "done"

PollNotFound ==
    /\ cpc = "polling"
    /\ \E r \in GetResponses, latency \in Latencies :
          /\ r.status_code = 404
          /\ PollAnswered(r, latency)
    /\ cpc' = "sleeping"
    /\ UNCHANGED cresult

\* any other status code: failed
PollUnexpected_Retry ==
    /\ cpc = "polling"
    /\ \E r \in GetResponses, latency \in Latencies :
          /\ r.status_code \notin {200, 404}
          /\ PollAnswered(r, latency)
    /\ cpc' = "sleeping"
    /\ UNCHANGED cresult

PollUnexpected ==
    /\ cpc = "polling"
    /\ \E r \in GetResponses, latency \in Latencies :
          /\ r.status_code \notin {200, 404}
          /\ PollAnswered(r, latency)
          /\ cresult' = WindmillJobResult(job_id, "failed", None,
                                          Atom(UnexpectedStatusMessage(r.status_code)))
    /\ cpc' = "done"

\* the GET raises httpx.HTTPError: warning, sleep
PollError_Fatal ==
    /\ cpc = "polling"
    /\ \E m \in NetworkErrorMessages, latency \in Latencies :
          /\ PollAnswered([raised |-> m], latency)
          /\ cresult' = WindmillJobResult(job_id, "failed", None, Atom(m))
    /\ cpc' = "done"

PollError ==
    /\ cpc = "polling"
    /\ \E m \in NetworkErrorMessages, latency \in Latencies :
          PollAnswered([raised |-> m], latency)
    /\ cpc' = "sleeping"
    /\ UNCHANGED cresult

\* await asyncio.sleep(1) ends, back to the top of the loop
Sleep ==
    /\ cpc = "sleeping"
    /\ now' = now + PollInterval
    /\ sleeps' = sleeps + 1
    /\ cpc' = "loop"
    /\ UNCHANGED <<caller, wait, timeout, job_id, start_time, elapsed, cresult, post, polls>>
    /\ ExecutorUnchanged

ClientNext ==
    \/ SendPost
    \/ PostAccepted
    \/ PostFails
    \/ LoopTimeout
    \/ SendPoll
    \/ PollCompleted
    \/ PollInvalidJson
    \/ PollNotFound
    \/ PollUnexpected
    \/ PollError
    \/ Sleep

SpecClient == InitClient /\ [][ClientNext]_vars

\* the event loop keeps running the coroutine; every request and sleep ends
SpecClientFair == SpecClient /\ WF_vars(ClientNext)

(* ---------------------------------------------------------------------- *)
(* Plans as dicts: model_dump() and ExecutionPlan from plan_data           *)
(* ---------------------------------------------------------------------- *)
List(s) == [tag |-> "list", v |-> s]

\* a dict is falsy when empty, like None and ""
IsEmptyDict(x) == x.tag = "dict" /\ DOMAIN x.v = {}

\* depends_on is read only by iteration and membership, so the model holds it
\* as a set; as a Python list it is written in ascending order
RECURSIVE SortedList(_)
SortedList(S) ==
    IF S = {} THEN <<>>
    ELSE LET m == CHOOSE x \in S : \A y \in S : x <= y
         IN  <<m>> \o SortedList(S \ {m})

StepFields ==
    {"step_number", "script_path", "input_params", "depends_on", "status", "result", "error"}

\* ExecutionStep.model_dump()
DumpStep(step) ==
    Dict([key \in StepFields |->
            CASE key = "step_number" -> Atom(step.step_number)
              [] key = "script_path" -> step.script_path
              [] key = "input_params" -> Dict(step.input_params)
              [] key = "depends_on" ->
                    LET l == SortedList(step.depends_on)
                    IN  List([i \in 1..Len(l) |-> Atom(l[i])])
              [] key = "status" -> Atom(step.status)
              [] key = "result" -> step.result
              [] key = "error" -> step.error])

PlanFields == {"task_id", "status", "steps"}

\* ExecutionPlan.model_dump()
DumpPlan(p) ==
    Dict([key \in PlanFields |->
            CASE key = "task_id" -> Atom(p.task_id)
              [] key = "status" -> Atom(p.status)
              [] key = "steps" -> List([i \in 1..Len(p.steps) |-> DumpStep(p.steps[i])])])

\* a keyword argument, or the field's default when the dict lacks the key
Field(data, key, default) == IF key \in DOMAIN data.v THEN data.v[key] ELSE default

\* ExecutionStep built from the keyword arguments in data
RebuildStep_ResetStatus(data) ==
    LET deps == Field(data, "depends_on", List(<<>>)).v
    IN  [step_number |-> data.v["step_number"].v,
         script_path |-> Field(data, "script_path", None),
         input_params |-> Field(data, "input_params", Dict(EmptyParams)).v,
         depends_on |-> { deps[i].v : i \in 1..Len(deps) },
         status |-> PENDING,
         result |-> Field(data, "result", None),
         error |-> Field(data, "error", None)]

RebuildStep(data) ==
    LET deps == Field(data, "depends_on", List(<<>>)).v
    IN  [step_number |-> data.v["step_number"].v,
         script_path |-> Field(data, "script_path", None),
         input_params |-> Field(data, "input_params", Dict(EmptyParams)).v,
         depends_on |-> { deps[i].v : i \in 1..Len(deps) },
         status |-> Field(data, "status", Atom(PENDING)).v,
         result |-> Field(data, "result", None),
         error |-> Field(data, "error", None)]

\* ExecutionPlan built from the keyword arguments in plan_data
RebuildPlan(data) ==
    LET l == Field(data, "steps", List(<<>>)).v
    IN  [task_id |-> data.v["task_id"].v,
         status |-> Field(data, "status", Atom(PENDING)).v,
         steps |-> [i \in 1..Len(l) |-> RebuildStep(l[i])]]

ResponseFields == {"task_id", "status", "result", "error", "steps_completed", "total_steps"}

\* TaskResponse.model_dump()
DumpResponse(r) ==
    Dict([key \in ResponseFields |->
            CASE key = "task_id" -> Atom(r.task_id)
              [] key = "status" -> Atom(r.status)
              [] key = "result" -> r.result
              [] key = "error" -> r.error
              [] key = "steps_completed" -> Atom(r.steps_completed)
              [] key = "total_steps" -> Atom(r.total_steps)])

(* ---------------------------------------------------------------------- *)
(* PlannerAgent.process (the reply) and ExecutorAgent.process              *)
(* ---------------------------------------------------------------------- *)
\* the context create_task gives the planner, as far as the executor reads it
BaseContext == [k \in {"user_id"} |-> Atom("u")]

\* {**message.context, "plan": plan.model_dump()}
PlannerContext(ctx, p) ==
    [k \in DOMAIN ctx \cup {"plan"} |-> IF k = "plan" THEN DumpPlan(p) ELSE ctx[k]]

\* message.context.get("plan")
PlanData(ctx) == IF "plan" \in DOMAIN ctx THEN ctx["plan"] ELSE None

\* `if not plan_data` does not hold
HasPlan(ctx) == PlanData(ctx) # None /\ ~IsEmptyDict(PlanData(ctx))

\* context={"error": "Missing plan"}
MissingPlanReply == [k \in {"error"} |-> Atom("Missing plan")]

\* context={"result": result.model_dump()}
ResultReply(r) == [k \in {"result"} |-> DumpResponse(r)]

\* object id of a newly constructed ExecutionPlan
NewObject_Reuse(h) == IF h = <<>> THEN 1 ELSE Len(h)

NewObject(h) == Len(h) + 1

\* the locals of a process call that has not started
NotStarted ==
    /\ plan = NewPlan(<<>>)
    /\ pc = "process"
    /\ idx = 1
    /\ completed_steps = 0
    /\ step_results = NoResults
    /\ final_result = None
    /\ error = None
    /\ input_params = EmptyParams
    /\ response = None
    /\ jobs = <<>>
    /\ started = <<>>
    /\ reply = None
    /\ plan_ref = 0

\* PlannerAgent.process, lines 69-84: the plan goes into the message as a dict
PlannerReplies ==
    /\ tpc = "planner_reply"
    /\ message' = PlannerContext(message, planned)
    /\ tpc' = "executor"
    /\ UNCHANGED <<plan, pc, idx, completed_steps, step_results, final_result, error,
                   input_params, response, jobs, started, cvars>>
    /\ UNCHANGED <<request, coord_result, planned, reply, task_response,
                   running, parked, heap, plan_ref>>

\* process without a plan in the context: the error reply
ProcessMissingPlan ==
    /\ tpc = "executor"
    /\ pc = "process"
    /\ ~HasPlan(message)
    /\ reply' = MissingPlanReply
    /\ pc' = "replied"
    /\ UNCHANGED <<plan, idx, completed_steps, step_results, final_result, error,
                   input_params, response, jobs, started, cvars>>
    /\ UNCHANGED <<tpc, request, coord_result, planned, message, task_response,
                   running, parked, heap, plan_ref>>

\* process with a plan: a new ExecutionPlan object is built from the dict
ProcessBuild ==
    /\ tpc = "executor"
    /\ pc = "process"
    /\ HasPlan(message)
    /\ plan' = RebuildPlan(PlanData(message))
    /\ plan_ref' = NewObject(heap)
    /\ heap' = IF plan_ref' > Len(heap) THEN Append(heap, plan')
               ELSE [heap EXCEPT ![plan_ref'] = plan']
    /\ pc' = "call"
    /\ UNCHANGED <<idx, completed_steps, step_results, final_result, error,
                   input_params, response, jobs, started, cvars>>
    /\ UNCHANGED <<tpc, request, coord_result, planned, message, reply, task_response,
                   running, parked>>

\* process after _execute_plan returned: the result goes into the reply
ProcessReply ==
    /\ tpc = "executor"
    /\ pc = "done"
    /\ reply' = ResultReply(response)
    /\ pc' = "replied"
    /\ UNCHANGED <<plan, idx, completed_steps, step_results, final_result, error,
                   input_params, response, jobs, started, cvars>>
    /\ UNCHANGED <<tpc, request, coord_result, planned, message, task_response,
                   running, parked, heap, plan_ref>>

\* the state a step can be in when a plan is serialised
StepStates ==
    { [status |-> PENDING, result |-> None, error |-> None],
      [status |-> COMPLETED, result |-> Atom("r0"), error |-> None],
      [status |-> FAILED, result |-> None, error |-> Atom("e0")] }

\* plans of n steps numbered by position, in any state
AnyStatePlans(n) ==
    { [k \in 1..n |->
          [step_number |-> k,
           script_path |-> IF scripted[k] THEN ScriptPathAt(k) ELSE None,
           input_params |-> params[k], depends_on |-> deps[k],
           status |-> st[k].status, result |-> st[k].result, error |-> st[k].error]] :
        scripted \in [1..n -> BOOLEAN],
        params \in [1..n -> {EmptyParams, ClashParams}],
        deps \in [1..n -> {{}, {1}, {1, 2}}],
        st \in [1..n -> StepStates] }

\* process is called with the planner's message for some plan, or with a
\* message that has no plan
InitProcess ==
    /\ NotStarted
    /\ ClientIdle
    /\ request = None
    /\ coord_result = None
    /\ task_response = None
    /\ running = 1
    /\ parked = None
    /\ heap = <<>>
    /\ \/ /\ tpc = "planner_reply"
          /\ message = BaseContext
          /\ \E n \in 0..MaxSteps : \E steps \in AnyStatePlans(n) :
                \E status \in {PENDING, EXECUTING} :
                    planned = [NewPlan(steps) EXCEPT !.status = status]
       \/ /\ tpc = "executor"
          /\ planned = None
          /\ message \in {BaseContext, [k \in {"plan"} |-> Dict(EmptyParams)]}

ProcessNext ==
    \/ PlannerReplies
    \/ ProcessMissingPlan
    \/ ProcessBuild
    \/ Next
    \/ ProcessReply

SpecProcess == InitProcess /\ [][ProcessNext]_vars

(* ---------------------------------------------------------------------- *)
(* create_task: coordinator, planner, executor, then the answer            *)
(* ---------------------------------------------------------------------- *)
\* a request's content is modelled by the keywords its lower-cased text holds
Keywords == {"post", "write", "schedule", "later", "report"}

\* any(word in content.lower() for word in words)
Mentions(content, words) == content \cap words # {}

\* CoordinatorAgent.skill_keywords, in dict order
SkillOrder == <<"social_media", "analytics", "workflow", "core">>

SkillKeywords ==
    [social_media |-> {"post", "tweet", "linkedin", "instagram", "facebook", "social"},
     analytics |-> {"analyze", "metrics", "report", "dashboard", "statistics", "data"},
     workflow |-> {"automate", "schedule", "workflow", "flow", "pipeline"},
     core |-> {"help", "general", "question", "explain"}]

\* _detect_skill: the first skill with a keyword in the content, else core
RECURSIVE DetectFrom(_, _)
DetectFrom(content, i) ==
    IF i > Len(SkillOrder) THEN "core"
    ELSE IF Mentions(content, SkillKeywords[SkillOrder[i]]) THEN SkillOrder[i]
    ELSE DetectFrom(content, i + 1)

DetectSkill(content) == DetectFrom(content, 1)

\* PlannerAgent.skill_scripts
SkillScripts ==
    [social_media |-> [create_post |-> "f/openanalyst/social/create_post",
                       schedule_post |-> "f/openanalyst/social/schedule_post",
                       analyze_engagement |-> "f/openanalyst/social/analyze_engagement"],
     analytics |-> [fetch_metrics |-> "f/openanalyst/analytics/fetch_metrics",
                    generate_report |-> "f/openanalyst/analytics/generate_report",
                    create_dashboard |-> "f/openanalyst/analytics/create_dashboard"],
     workflow |-> [create_flow |-> "f/openanalyst/workflow/create_flow",
                   schedule_flow |-> "f/openanalyst/workflow/schedule_flow"],
     core |-> [send_message |-> "f/openanalyst/core/send_ws_message",
               log_activity |-> "f/openanalyst/core/log_activity"]]

\* self.skill_scripts.get(skill, self.skill_scripts["core"])
ScriptsFor(skill) ==
    IF skill \in DOMAIN SkillScripts THEN SkillScripts[skill] ELSE SkillScripts["core"]

\* scripts.get(name)
ScriptGet(scripts, name) == IF name \in DOMAIN scripts THEN Atom(scripts[name]) ELSE None

\* the request text as a value
ContentText == Atom("content")

\* _create_plan
CreatePlan_AlwaysDepends(content, skill, user_id) ==
    LET scripts == ScriptsFor(skill)
        create_post ==
            IF Mentions(content, {"create", "post", "tweet", "write"})
            THEN <<NewStep(1, ScriptGet(scripts, "create_post"),
                           [content_request |-> ContentText, user_id |-> Atom(user_id)], {})>>
            ELSE <<>>
        schedule_post ==
            IF Mentions(content, {"schedule", "later", "tomorrow"})
            THEN <<NewStep(Len(create_post) + 1, ScriptGet(scripts, "schedule_post"),
                           [user_id |-> Atom(user_id)], {1})>>
            ELSE <<>>
        metrics ==
            <<NewStep(1, ScriptGet(scripts, "fetch_metrics"),
                      [query |-> ContentText, user_id |-> Atom(user_id)], {})>>
        report ==
            IF "report" \in content
            THEN <<NewStep(2, ScriptGet(scripts, "generate_report"),
                           [user_id |-> Atom(user_id)], {1})>>
            ELSE <<>>
        log ==
            <<NewStep(1, ScriptGet(scripts, "log_activity"),
                      [action |-> Atom("task_processed"), content |-> ContentText,
                       user_id |-> Atom(user_id)], {})>>
    IN  NewPlan(IF skill = "social_media" THEN create_post \o schedule_post
                ELSE IF skill = "analytics" THEN metrics \o report
                ELSE log)

CreatePlan(content, skill, user_id) ==
    LET scripts == ScriptsFor(skill)
        create_post ==
            IF Mentions(content, {"create", "post", "tweet", "write"})
            THEN <<NewStep(1, ScriptGet(scripts, "create_post"),
                           [content_request |-> ContentText, user_id |-> Atom(user_id)], {})>>
            ELSE <<>>
        schedule_post ==
            IF Mentions(content, {"schedule", "later", "tomorrow"})
            THEN <<NewStep(Len(create_post) + 1, ScriptGet(scripts, "schedule_post"),
                           [user_id |-> Atom(user_id)],
                           IF create_post # <<>> THEN {1} ELSE {})>>
            ELSE <<>>
        metrics ==
            <<NewStep(1, ScriptGet(scripts, "fetch_metrics"),
                      [query |-> ContentText, user_id |-> Atom(user_id)], {})>>
        report ==
            IF "report" \in content
            THEN <<NewStep(2, ScriptGet(scripts, "generate_report"),
                           [user_id |-> Atom(user_id)], {1})>>
            ELSE <<>>
        log ==
            <<NewStep(1, ScriptGet(scripts, "log_activity"),
                      [action |-> Atom("task_processed"), content |-> ContentText,
                       user_id |-> Atom(user_id)], {})>>
    IN  NewPlan(IF skill = "social_media" THEN create_post \o schedule_post
                ELSE IF skill = "analytics" THEN metrics \o report
                ELSE log)

\* the TaskRequests explored; skill is optional
TaskRequests ==
    [skill : {None} \cup { Atom(k) : k \in {"social_media", "analytics", "workflow",
                                             "core", "other"} },
     content : SUBSET Keywords,
     user_id : {"u"},
     session_id : {"s1"}]

\* handle_task_request
CoordResult(req) ==
    [task_id |-> "task_" \o req.session_id,
     user_id |-> req.user_id,
     skill |-> IF Truthy(req.skill) THEN req.skill.v ELSE DetectSkill(req.content)]

\* context of the planner_message built by create_task
TaskContext(req, coord) ==
    [k \in {"user_id", "session_id", "detected_skill"} |->
        CASE k = "user_id" -> Atom(req.user_id)
          [] k = "session_id" -> Atom(req.session_id)
          [] k = "detected_skill" -> Atom(coord.skill)]

\* str(e) of what a stage of create_task can raise
StageErrors == {"1 validation error for ExecutionPlan", ""}

\* lines 123-133: the reply's result dict becomes the TaskResponse
MapReply(ctx, coord) ==
    LET result == IF "result" \in DOMAIN ctx THEN ctx["result"] ELSE Dict(EmptyParams)
    IN  TaskResponse(Field(result, "task_id", Atom(coord.task_id)).v,
                     Field(result, "status", Atom("completed")).v,
                     Field(result, "result", None),
                     Field(result, "error", None),
                     Field(result, "steps_completed", Atom(0)).v,
                     Field(result, "total_steps", Atom(0)).v)

\* the except branch of create_task
FailedResponse(msg) == TaskResponse("", FAILED, None, Atom(msg), 0, 0)

InitTask ==
    /\ NotStarted
    /\ ClientIdle
    /\ tpc = "coordinator"
    /\ request \in TaskRequests
    /\ coord_result = None
    /\ planned = None
    /\ message = None
    /\ task_response = None
    /\ running = 1
    /\ parked = None
    /\ heap = <<>>

ProcessUnchanged ==
    UNCHANGED <<plan, pc, idx, completed_steps, step_results, final_result, error,
                input_params, response, jobs, started, cvars,
                reply, running, parked, heap, plan_ref>>

\* step 1: coordinator_agent.handle_task_request
CoordinatorHandles ==
    /\ tpc = "coordinator"
    /\ coord_result' = CoordResult(request)
    /\ tpc' = "planner"
    /\ UNCHANGED <<request, planned, message, task_response>>
    /\ ProcessUnchanged

\* steps 2 and 3: the planner message is built and planner_agent.process
\* creates the plan
PlannerCreatesPlan ==
    /\ tpc = "planner"
    /\ message' = TaskContext(request, coord_result)
    /\ planned' = CreatePlan(request.content, message'["detected_skill"].v,
                             message'["user_id"].v)
    /\ tpc' = "planner_reply"
    /\ UNCHANGED <<request, coord_result, task_response>>
    /\ ProcessUnchanged

\* lines 122-133: executor_agent.process returned, the answer is built
TaskAnswers ==
    /\ tpc = "executor"
    /\ pc = "replied"
    /\ task_response' = MapReply(reply, coord_result)
    /\ tpc' = "answered"
    /\ UNCHANGED <<request, coord_result, planned, message>>
    /\ ProcessUnchanged

\* a stage raises: the except branch answers with a failed TaskResponse
TaskRaises_Propagates ==
    /\ \/ tpc \in {"coordinator", "planner", "planner_reply"}
       \/ tpc = "executor" /\ pc \in {"process", "replied"}
    /\ tpc' = "raised"
    /\ UNCHANGED <<request, coord_result, planned, message, task_response>>
    /\ ProcessUnchanged

TaskRaises ==
    /\ \/ tpc \in {"coordinator", "planner", "planner_reply"}
       \/ tpc = "executor" /\ pc \in {"process", "replied"}
    /\ \E msg \in StageErrors : task_response' = FailedResponse(msg)
    /\ tpc' = "answered"
    /\ UNCHANGED <<request, coord_result, planned, message>>
    /\ ProcessUnchanged

\* the planner always supplies a plan whose dependencies can be met, so the
\* branches for a missing plan and for unmet dependencies are not taken here
TaskNext ==
    \/ CoordinatorHandles
    \/ PlannerCreatesPlan
    \/ PlannerReplies
    \/ ProcessBuild
    \/ Enter
    \/ BeginStep
    \/ Passthrough
    \/ SubmitScript
    \/ ScriptReturns
    \/ ScriptRaises
    \/ Return
    \/ ProcessReply
    \/ TaskAnswers
    \/ TaskRaises

SpecTask == InitTask /\ [][TaskNext]_vars

(* ---------------------------------------------------------------------- *)
(* process called with any message, and its reply mapped by create_task    *)
(* ---------------------------------------------------------------------- *)
\* what handle_task_request gave create_task for a request without a skill
\* whose text holds no keyword
PlainCoordResult ==
    CoordResult([skill |-> None, content |-> {}, user_id |-> "u", session_id |-> "s1"])

\* message contexts in which `not plan_data` holds: no plan key, an empty plan
MissingPlanContexts == {BaseContext, [k \in {"plan"} |-> Dict(EmptyParams)]}

\* executor_agent.process is called with a message that carries a plan or
\* none, and lines 123-133 of create_task map the reply it gives
InitMapped ==
    /\ NotStarted
    /\ ClientIdle
    /\ tpc = "executor"
    /\ request = None
    /\ coord_result = PlainCoordResult
    /\ planned = None
    /\ task_response = None
    /\ running = 1
    /\ parked = None
    /\ heap = <<>>
    /\ \/ message \in MissingPlanContexts
       \/ \E n \in 0..MaxSteps : \E steps \in ParamPlans(n) :
             message = PlannerContext(BaseContext, NewPlan(steps))

MappedNext ==
    \/ ProcessMissingPlan
    \/ ProcessBuild
    \/ Next
    \/ ProcessReply
    \/ TaskAnswers

SpecMapped == InitMapped /\ [][MappedNext]_vars

(* ---------------------------------------------------------------------- *)
(* Two process calls on the singleton executor, run by one event loop      *)
(* ---------------------------------------------------------------------- *)
\* the locals of the running process call
Frame ==
    [pc |-> pc, idx |-> idx, completed_steps |-> completed_steps,
     step_results |-> step_results, final_result |-> final_result, error |-> error,
     input_params |-> input_params, response |-> response, jobs |-> jobs,
     started |-> started, message |-> message, reply |-> reply, plan_ref |-> plan_ref]

\* the locals of a process call given `ctx` that has not started
NewFrame(ctx) ==
    [pc |-> "process", idx |-> 1, completed_steps |-> 0,
     step_results |-> NoResults, final_result |-> None, error |-> None,
     input_params |-> EmptyParams, response |-> None, jobs |-> <<>>,
     started |-> <<>>, message |-> ctx, reply |-> None, plan_ref |-> 0]

\* the ExecutionPlan object with this id
Object(ref) == IF ref = plan_ref THEN plan ELSE heap[ref]

\* plans of n steps numbered by position, all bound to scripts or none
PairPlans(n) ==
    { [k \in 1..n |-> NewStep(k, IF scripted THEN ScriptPathAt(k) ELSE None,
                               UserParams, deps[k])] :
        scripted \in BOOLEAN, deps \in [1..n -> {{}, {1}}] }

\* two process calls are scheduled, for two plans or for the same plan data
InitPair ==
    /\ NotStarted
    /\ ClientIdle
    /\ tpc = "executor"
    /\ request = None
    /\ coord_result = None
    /\ task_response = None
    /\ running = 1
    /\ heap = <<>>
    /\ \E n1, n2 \in 1..MaxSteps : \E steps1 \in PairPlans(n1), steps2 \in PairPlans(n2) :
          \E second \in { [NewPlan(steps2) EXCEPT !.task_id = "t2"], NewPlan(steps1) } :
              /\ planned = <<NewPlan(steps1), second>>
              /\ message = PlannerContext(BaseContext, planned[1])
              /\ parked = NewFrame(PlannerContext(BaseContext, planned[2]))

\* the running call is suspended inside run_script, or has returned, and the
\* event loop runs the other call; each call has its own locals
Switch_SharedResults ==
    /\ pc \in {"await", "replied"}
    /\ parked.pc \in {"process", "await"}
    /\ heap' = IF plan_ref = 0 THEN heap ELSE [heap EXCEPT ![plan_ref] = plan]
    /\ parked' = Frame
    /\ plan' = IF parked.plan_ref = 0 THEN NewPlan(<<>>) ELSE heap'[parked.plan_ref]
    /\ pc' = parked.pc
    /\ idx' = parked.idx
    /\ completed_steps' = parked.completed_steps
    /\ step_results' = step_results
    /\ final_result' = parked.final_result
    /\ error' = parked.error
    /\ input_params' = parked.input_params
    /\ response' = parked.response
    /\ jobs' = parked.jobs
    /\ started' = parked.started
    /\ message' = parked.message
    /\ reply' = parked.reply
    /\ plan_ref' = parked.plan_ref
    /\ running' = 3 - running
    /\ UNCHANGED <<cvars, tpc, request, coord_result, planned, task_response>>

Switch ==
    /\ pc \in {"await", "replied"}
    /\ parked.pc \in {"process", "await"}
    /\ heap' = IF plan_ref = 0 THEN heap ELSE [heap EXCEPT ![plan_ref] = plan]
    /\ parked' = Frame
    /\ plan' = IF parked.plan_ref = 0 THEN NewPlan(<<>>) ELSE heap'[parked.plan_ref]
    /\ pc' = parked.pc
    /\ idx' = parked.idx
    /\ completed_steps' = parked.completed_steps
    /\ step_results' = parked.step_results
    /\ final_result' = parked.final_result
    /\ error' = parked.error
    /\ input_params' = parked.input_params
    /\ response' = parked.response
    /\ jobs' = parked.jobs
    /\ started' = parked.started
    /\ message' = parked.message
    /\ reply' = parked.reply
    /\ plan_ref' = parked.plan_ref
    /\ running' = 3 - running
    /\ UNCHANGED <<cvars, tpc, request, coord_result, planned, task_response>>

\* _execute_plan run on its own, as a function of the plan and of what the
\* run_script calls hand back in order; `acc` holds the locals and the args sent
RECURSIVE WalkAlone(_, _, _, _)
WalkAlone(p, k, answers, acc) ==
    IF k > Len(p.steps) THEN [plan |-> p, acc |-> acc, error |-> None]
    ELSE
      LET step == p.steps[k]
          input == PrepareInput(step, acc.step_results)
          completed(result, rest, sent) ==
              WalkAlone([p EXCEPT !.steps[k].status = COMPLETED, !.steps[k].result = result],
                        NextIndex(k), rest,
                        [step_results |->
                            [n \in DOMAIN acc.step_results \cup {step.step_number} |->
                                IF n = step.step_number THEN result
                                ELSE acc.step_results[n]],
                         completed_steps |-> acc.completed_steps + 1,
                         final_result |-> result,
                         sent |-> sent])
          failed(cause, sent) ==
              [plan |-> [p EXCEPT !.steps[k].status = FAILED,
                                  !.steps[k].error = Atom(cause)],
               acc |-> [acc EXCEPT !.sent = sent],
               error |-> Atom(StepFailedMessage(step.step_number, cause))]
      IN  IF ~CheckDependencies(step, acc.step_results)
          THEN [plan |-> p, acc |-> acc,
                error |-> Atom(DepsNotMetMessage(step.step_number))]
          ELSE IF ~Truthy(step.script_path)
          THEN completed(Dict(input), answers, acc.sent)
          ELSE LET answer == Head(answers)
                   sent == Append(acc.sent, input)
               IN  IF "raised" \in DOMAIN answer THEN failed(answer.raised, sent)
                   ELSE IF answer.status = "completed"
                   THEN completed(answer.result, Tail(answers), sent)
                   ELSE failed(ErrorCause(answer), sent)

RunAlone(p, answers) ==
    LET w == WalkAlone([p EXCEPT !.status = EXECUTING], 1, answers,
                       [step_results |-> NoResults, completed_steps |-> 0,
                        final_result |-> None, sent |-> <<>>])
    IN  [plan |-> w.plan,
         sent |-> w.acc.sent,
         response |-> TaskResponse(p.task_id, ResponseStatus(w.error), w.acc.final_result,
                                   w.error, w.acc.completed_steps, Len(p.steps))]

\* the planner's messages always carry a plan, so the missing-plan branch is
\* not taken here
PairNext ==
    \/ ProcessBuild
    \/ Next
    \/ ProcessReply
    \/ Switch

SpecPair == InitPair /\ [][PairNext]_vars

(* ---------------------------------------------------------------------- *)
(* Properties                                                              *)
(* ---------------------------------------------------------------------- *)
NumSteps == Len(plan.steps)

Returned == pc = "done"

\* positions for which run_script was called
JobPositions == { jobs[j].pos : j \in 1..Len(jobs) }

\* positions that were set to executing
StartedPositions == { started[j] : j \in 1..Len(started) }

\* every step before position k completed, i.e. the walk got as far as position k
Reached(k) == \A j \in 1..(k - 1) : plan.steps[j].status = COMPLETED

\* the step before position k that last recorded a result under step number d
LastWithNumber(d, k) ==
    CHOOSE q \in 1..(k - 1) :
        /\ plan.steps[q].step_number = d
        /\ \A r \in (q + 1)..(k - 1) : plan.steps[r].step_number # d

\* some dependency of the step at position k is the number of no earlier step
Unmet(k) ==
    \E d \in plan.steps[k].depends_on :
        \A j \in 1..(k - 1) : plan.steps[j].step_number # d

\* run_script call j handed back a WindmillJobResult with this status
JobEnded(j, status) ==
    /\ j \in 1..Len(jobs)
    /\ "status" \in DOMAIN jobs[j].outcome
    /\ jobs[j].outcome.status = status

Untouched(k) ==
    /\ plan.steps[k].status = PENDING
    /\ plan.steps[k].result = None
    /\ plan.steps[k].error = None
    /\ k \notin StartedPositions
    /\ k \notin JobPositions

\* C1: fail-fast. If the step at position k failed, every later step is still
\* pending, was never set to executing and had no job submitted, and the
\* returned TaskResponse counts k-1 completed steps.
C1_FailFast ==
    \A k \in 1..NumSteps :
        plan.steps[k].status = FAILED =>
            /\ \A j \in (k + 1)..NumSteps : Untouched(j)
            /\ Returned => response.steps_completed = k - 1

C1_Witness ==
    /\ Returned
    /\ NumSteps = 2
    /\ plan.steps[1].status = FAILED
    /\ plan.steps[2].depends_on = {}
    /\ Truthy(plan.steps[2].script_path)

\* C2: unmet dependency. When the walk reaches position k and one of its
\* depends_on ids was recorded by no earlier step, step k and all later steps
\* stay untouched, and the response is failed with steps_completed = k-1 and
\* error "Step <N> dependencies not met".
C2_UnmetDependencyAborts ==
    \A k \in 1..NumSteps :
        (Reached(k) /\ Unmet(k)) =>
            /\ \A j \in k..NumSteps : Untouched(j)
            /\ Returned =>
                /\ response.status = FAILED
                /\ response.steps_completed = k - 1
                /\ response.error =
                     Atom("Step " \o ToString(plan.steps[k].step_number)
                                  \o " dependencies not met")

C2_Witness ==
    /\ Returned
    /\ NumSteps = 2
    /\ Reached(2)
    /\ Unmet(2)
    /\ response.steps_completed = 1

\* C3: every returned TaskResponse has steps_completed <= total_steps,
\* total_steps = number of steps of the plan, and status completed exactly
\* when error is none and steps_completed = total_steps, failed otherwise.
C3_ResponseConsistent ==
    Returned =>
        /\ response.steps_completed <= response.total_steps
        /\ response.total_steps = NumSteps
        /\ response.status \in {COMPLETED, FAILED}
        /\ response.status = COMPLETED <=>
              (response.error = None /\ response.steps_completed = response.total_steps)

C3_Witness ==
    /\ Returned
    /\ response.total_steps = 2
    /\ response.steps_completed = 1
    /\ response.status = FAILED

\* C4: the steps set to executing are, in order, a prefix of plan.steps in
\* its declared order whatever the step numbers and dependencies; with no
\* dependencies and no failure the whole sequence is executed.
C4_NoReorder ==
    /\ \A j \in 1..Len(started) : started[j] = j
    /\ Len(started) <= NumSteps
    /\ (/\ Returned
        /\ \A k \in 1..NumSteps : plan.steps[k].depends_on = {}
        /\ \A k \in 1..NumSteps : plan.steps[k].status # FAILED)
       => Len(started) = NumSteps

C4_Witness ==
    /\ Returned
    /\ NumSteps = 2
    /\ started = <<1, 2>>
    /\ plan.steps[1].step_number = 2
    /\ plan.steps[2].step_number = 1
    /\ \A k \in 1..2 : plan.steps[k].depends_on = {}

\* the args a step at position k must be dispatched with: its input_params
\* plus step_<d>_result for each d in depends_on, holding the result of the
\* step that last ran under number d
ExpectedInput(k, actual) ==
    LET step == plan.steps[k]
        injectedKeys == { "step_" \o ToString(d) \o "_result" : d \in step.depends_on }
    IN  /\ DOMAIN actual = DOMAIN step.input_params \cup injectedKeys
        /\ \A d \in step.depends_on :
              actual["step_" \o ToString(d) \o "_result"]
                 = plan.steps[LastWithNumber(d, k)].result
        /\ \A key \in DOMAIN step.input_params \ injectedKeys :
              actual[key] = step.input_params[key]

TwoStepScenario ==
    /\ NumSteps = 2
    /\ plan.steps[1].step_number = 1
    /\ Truthy(plan.steps[1].script_path)
    /\ plan.steps[1].depends_on = {}
    /\ plan.steps[2].step_number = 2
    /\ Truthy(plan.steps[2].script_path)
    /\ plan.steps[2].depends_on = {1}

\* C5: every remote job is sent the step's input_params plus, for each d in
\* depends_on, step_<d>_result = the result recorded for step number d; and
\* the two-step plan [1 (script), 2 (script, depends_on [1])] with both jobs
\* completing returns completed, 2 of 2 steps, result = the second job's.
C5_InjectedArgs ==
    /\ \A j \in 1..Len(jobs) : ExpectedInput(jobs[j].pos, jobs[j].args)
    /\ (/\ Returned
        /\ TwoStepScenario
        /\ JobEnded(1, "completed")
        /\ JobEnded(2, "completed"))
       => /\ response.status = COMPLETED
          /\ response.steps_completed = 2
          /\ response.total_steps = 2
          /\ response.result = jobs[2].outcome.result

C5_Witness ==
    /\ Returned
    /\ TwoStepScenario
    /\ JobEnded(1, "completed")
    /\ JobEnded(2, "completed")
    /\ jobs[2].args["step_1_result"] = jobs[1].outcome.result
    /\ jobs[1].outcome.result # jobs[2].outcome.result
    /\ response.status = COMPLETED

\* C6: a step without script_path that is reached with its dependencies
\* satisfied completes, never fails, has no remote job, and its result is the
\* dict of its input_params plus the injected step_<d>_result keys, no more.
C6_PassthroughCompletes ==
    \A k \in 1..NumSteps :
        ~Truthy(plan.steps[k].script_path) =>
            /\ k \notin JobPositions
            /\ plan.steps[k].status # FAILED
            /\ (Returned /\ Reached(k) /\ ~Unmet(k)) => plan.steps[k].status = COMPLETED
            /\ plan.steps[k].status = COMPLETED =>
                  /\ plan.steps[k].result.tag = "dict"
                  /\ ExpectedInput(k, plan.steps[k].result.v)

C6_Witness ==
    /\ Returned
    /\ NumSteps = 2
    /\ ~Truthy(plan.steps[2].script_path)
    /\ plan.steps[2].depends_on = {1}
    /\ plan.steps[2].input_params = UserParams
    /\ plan.steps[2].status = COMPLETED
    /\ DOMAIN plan.steps[2].result.v = {"user_id", "step_1_result"}

\* C7: every key present in a step's input_params keeps the caller-supplied
\* value in the prepared input, whether sent to a remote job or returned by a
\* passthrough step.
C7_CallerKeysKept ==
    /\ \A j \in 1..Len(jobs) :
          \A key \in DOMAIN plan.steps[jobs[j].pos].input_params :
              jobs[j].args[key] = plan.steps[jobs[j].pos].input_params[key]
    /\ \A k \in 1..NumSteps :
          (~Truthy(plan.steps[k].script_path) /\ plan.steps[k].status = COMPLETED) =>
              \A key \in DOMAIN plan.steps[k].input_params :
                  plan.steps[k].result.v[key] = plan.steps[k].input_params[key]

\* where the walk stopped: the first position whose step did not complete
HaltedAt(k) ==
    /\ Reached(k)
    /\ k <= NumSteps => plan.steps[k].status # COMPLETED

\* C8: the returned result is that of the last step that completed: none
\* when no step completed, otherwise the result of the step just before the
\* position where the walk stopped (the final step when nothing stopped it).
C8_ResultIsLastCompleted ==
    Returned =>
        \A k \in 1..(NumSteps + 1) :
            HaltedAt(k) =>
                response.result = IF k = 1 THEN None ELSE plan.steps[k - 1].result

C8_Witness ==
    /\ Returned
    /\ NumSteps = 2
    /\ HaltedAt(2)
    /\ plan.steps[2].status = FAILED
    /\ response.result = plan.steps[1].result
    /\ response.result # None

\* the cause a non-completed job result carries
RemoteCause(outcome) ==
    IF outcome.error = None \/ outcome.error = Atom("")
    THEN "Script execution failed"
    ELSE outcome.error.v

\* C9: a job that ends failed or timeout fails its step: status failed,
\* step.error = the remote error or "Script execution failed", response failed
\* with error "Step N failed: <cause>"; when it is the first step's job,
\* steps_completed is 0 and the second step stays pending.
C9_RemoteFailureFailsStep ==
    \A j \in 1..Len(jobs) :
        (JobEnded(j, "failed") \/ JobEnded(j, "timeout")) =>
            LET k == jobs[j].pos
                cause == RemoteCause(jobs[j].outcome)
            IN  /\ plan.steps[k].status = FAILED
                /\ plan.steps[k].error = Atom(cause)
                /\ plan.steps[k].result = None
                /\ Returned =>
                      /\ response.status = FAILED
                      /\ response.error =
                           Atom("Step " \o ToString(plan.steps[k].step_number)
                                        \o " failed: " \o cause)
                      /\ k = 1 => response.steps_completed = 0
                /\ (k = 1 /\ NumSteps >= 2) => plan.steps[2].status = PENDING

C9_Witness ==
    /\ Returned
    /\ NumSteps = 2
    /\ JobEnded(1, "failed")
    /\ jobs[1].pos = 1
    /\ jobs[1].outcome.error = Atom("")
    /\ plan.steps[1].error = Atom("Script execution failed")
    /\ plan.steps[2].status = PENDING

\* C10: when _execute_plan has returned, plan.status is terminal and equals
\* the status of the returned TaskResponse (completed or failed).
C10_PlanStatusTerminal ==
    Returned =>
        /\ plan.status \in {COMPLETED, FAILED}
        /\ plan.status = response.status

\* C11: step status is monotonic. In every step of an execution each step's
\* status either stays, moves pending -> executing, or moves executing ->
\* completed or failed; so it never regresses, never skips executing and
\* never leaves completed or failed.
C11_StatusMonotonic ==
    [][ /\ Len(plan'.steps) = Len(plan.steps)
        /\ \A k \in 1..Len(plan.steps) :
              \/ plan'.steps[k].status = plan.steps[k].status
              \/ /\ plan.steps[k].status = PENDING
                 /\ plan'.steps[k].status = EXECUTING
              \/ /\ plan.steps[k].status = EXECUTING
                 /\ plan'.steps[k].status \in {COMPLETED, FAILED} ]_vars

C11_Witness ==
    /\ Returned
    /\ NumSteps = 2
    /\ plan.steps[1].status = COMPLETED
    /\ plan.steps[2].status = FAILED
    /\ started = <<1, 2>>

\* result and error of one step, in one state
ResultErrorExclusive(step) ==
    /\ step.error # None => step.status = FAILED
    /\ step.result # None => step.status = COMPLETED
    /\ ~(step.error # None /\ step.result # None)
    /\ step.status \in {PENDING, EXECUTING} => (step.result = None /\ step.error = None)

\* C12: a step has error set only when failed, result recorded only when
\* completed, never both, and neither while pending or executing; once set,
\* a step's result or error is never written again.
C12_ResultErrorExclusive ==
    /\ [](\A k \in 1..NumSteps : ResultErrorExclusive(plan.steps[k]))
    /\ [][ \A k \in 1..Len(plan.steps) :
              /\ plan.steps[k].result # None => plan'.steps[k].result = plan.steps[k].result
              /\ plan.steps[k].error # None => plan'.steps[k].error = plan.steps[k].error ]_vars

C12_Witness ==
    /\ Returned
    /\ NumSteps = 2
    /\ plan.steps[1].result # None
    /\ plan.steps[1].error = None
    /\ plan.steps[2].error # None
    /\ plan.steps[2].result = None

\* run_script call j has not handed anything back yet
InFlight(j) == "tag" \in DOMAIN jobs[j].outcome

\* C21: strictly sequential execution. At every moment at most one step is
\* executing and at most one remote job is in flight, the job in flight is
\* that of the executing step, and a job is submitted for a position only
\* when every earlier position has completed, dependency or not.
C21_StrictlySequential ==
    /\ Cardinality({ k \in 1..NumSteps : plan.steps[k].status = EXECUTING }) <= 1
    /\ Cardinality({ j \in 1..Len(jobs) : InFlight(j) }) <= 1
    /\ \A j \in 1..Len(jobs) :
          /\ InFlight(j) => plan.steps[jobs[j].pos].status = EXECUTING
          /\ \A q \in 1..(jobs[j].pos - 1) : plan.steps[q].status = COMPLETED

C21_Witness ==
    /\ NumSteps = 2
    /\ \A k \in 1..2 : plan.steps[k].depends_on = {}
    /\ Len(jobs) = 2
    /\ InFlight(2)
    /\ jobs[2].pos = 2
    /\ plan.steps[1].status = COMPLETED
    /\ plan.steps[2].status = EXECUTING

\* run_script call j ended otherwise than with a completed job
JobWentWrong(j) == ~InFlight(j) /\ ~JobEnded(j, "completed")

\* C22: no failure escapes _execute_plan. Whatever run_script hands back or
\* raises, the execution stays inside _execute_plan until it returns; the
\* TaskResponse carries the plan's task_id, and after a job that failed,
\* timed out or raised it has status failed and a non-empty error.
C22_NoFailureEscapes ==
    /\ pc \in {"call", "loop", "execute", "await", "finish", "done"}
    /\ ~Returned => ENABLED Next
    /\ Returned =>
          /\ response.task_id = plan.task_id
          /\ response.status \in {COMPLETED, FAILED}
          /\ \A j \in 1..Len(jobs) :
                JobWentWrong(j) =>
                    /\ response.status = FAILED
                    /\ Truthy(response.error)
                    /\ plan.steps[jobs[j].pos].status = FAILED

C22_Witness ==
    /\ Returned
    /\ Len(jobs) = 2
    /\ "raised" \in DOMAIN jobs[2].outcome
    /\ response.status = FAILED
    /\ response.steps_completed = 1

\* C24: execution leaves the steps' input_params as the caller supplied
\* them: no step of an execution adds, removes or changes a key of any
\* step's input_params, whether the run ends in success, failure or abort.
C24_InputsIntact ==
    [][ /\ Len(plan'.steps) = Len(plan.steps)
        /\ \A k \in 1..Len(plan.steps) :
              plan'.steps[k].input_params = plan.steps[k].input_params ]_vars

C24_Witness ==
    /\ Returned
    /\ NumSteps = 2
    /\ plan.steps[2].depends_on = {1}
    /\ plan.steps[2].input_params = ClashParams
    /\ plan.steps[2].status = COMPLETED
    /\ Len(jobs) = 2
    /\ jobs[2].args[StepResultKey(1)] # Atom("caller")

\* script-bearing positions that were set to executing
ScriptedStarted == { k \in StartedPositions : Truthy(plan.steps[k].script_path) }

\* C28: at-most-once dispatch. No position has two run_script calls; a call
\* is made only for a started step with a script_path whose dependencies
\* were met; a failed or timed-out job is the last call of the execution;
\* and once the submission is made the number of calls equals the number of
\* script-bearing steps set to executing.
C28_AtMostOnceDispatch ==
    /\ \A i, j \in 1..Len(jobs) : jobs[i].pos = jobs[j].pos => i = j
    /\ \A j \in 1..Len(jobs) :
          /\ jobs[j].pos \in ScriptedStarted
          /\ Reached(jobs[j].pos)
          /\ ~Unmet(jobs[j].pos)
          /\ (JobEnded(j, "failed") \/ JobEnded(j, "timeout")) => j = Len(jobs)
    /\ pc # "execute" => Len(jobs) = Cardinality(ScriptedStarted)

C28_Witness ==
    /\ Returned
    /\ NumSteps = 2
    /\ Len(jobs) = 2
    /\ JobEnded(1, "completed")
    /\ JobEnded(2, "timeout")
    /\ Cardinality(ScriptedStarted) = 2

\* C30: status shape. The statuses in plan order are a run of completed
\* steps, then at most one executing or failed step, then pending steps
\* only; completed_steps is the length of the completed run.
C30_StatusShape ==
    \E c \in 0..NumSteps :
        /\ \A k \in 1..c : plan.steps[k].status = COMPLETED
        /\ c < NumSteps => plan.steps[c + 1].status \in {PENDING, EXECUTING, FAILED}
        /\ \A k \in (c + 2)..NumSteps : plan.steps[k].status = PENDING
        /\ completed_steps = c
        /\ completed_steps =
              Cardinality({ k \in 1..NumSteps : plan.steps[k].status = COMPLETED })

C30_Witness ==
    /\ NumSteps = 2
    /\ plan.steps[1].status = COMPLETED
    /\ plan.steps[2].status = EXECUTING
    /\ completed_steps = 1

(* ---------------------------------------------------------------------- *)
(* Properties of the Windmill client                                       *)
(* ---------------------------------------------------------------------- *)
ClientDone == cpc = "done"

\* run_script returned a WindmillJobResult with this status
ClientReturned(status) ==
    /\ ClientDone
    /\ "status" \in DOMAIN cresult
    /\ cresult.status = status

\* the submit POST was accepted
PostOk ==
    /\ post # <<>>
    /\ "text" \in DOMAIN post[Len(post)].outcome

\* the submit POST raised
PostFailed ==
    /\ post # <<>>
    /\ "message" \in DOMAIN post[Len(post)].outcome

\* status code answered to the j-th status query, 0 when there was none
PollCode(j) ==
    IF "status_code" \in DOMAIN polls[j].outcome THEN polls[j].outcome.status_code ELSE 0

\* the j-th status query raised a network error
PollRaised(j) == "raised" \in DOMAIN polls[j].outcome

NotReady(j) == PollCode(j) = 404 \/ PollRaised(j)

\* the last status query was answered 200 with a JSON body
LastPollReady ==
    /\ polls # <<>>
    /\ PollCode(Len(polls)) = 200
    /\ polls[Len(polls)].outcome.body # InvalidJson

\* C13: run_script always returns, and when every status query was answered
\* 404 or raised a network error it returns status timeout with the error
\* "Job timed out after <timeout>s".
C13_PollingTerminates ==
    /\ <>ClientDone
    /\ []((/\ ClientDone
           /\ wait
           /\ PostOk
           /\ \A j \in 1..Len(polls) : NotReady(j))
          => /\ ClientReturned("timeout")
             /\ cresult.error = Atom("Job timed out after " \o ToString(timeout) \o "s"))

C13_Witness ==
    /\ ClientReturned("timeout")
    /\ timeout = 2
    /\ Len(polls) >= 2
    /\ \A j \in 1..Len(polls) : NotReady(j)
    /\ \E j \in 1..Len(polls) : PollCode(j) = 404
    /\ \E j \in 1..Len(polls) : PollRaised(j)

\* C14: after n answers 404 followed by a 200, run_script returns completed
\* with the 200 payload, having slept exactly n times, with duration_ms >=
\* n*1000; and it reports timeout only when more than timeout has elapsed.
C14_PollingUntilReady ==
    /\ (/\ ClientDone
        /\ LastPollReady
        /\ \A j \in 1..(Len(polls) - 1) : PollCode(j) = 404)
       => /\ ClientReturned("completed")
          /\ cresult.result = polls[Len(polls)].outcome.body
          /\ cresult.error = None
          /\ sleeps = Len(polls) - 1
          /\ cresult.duration_ms >= (Len(polls) - 1) * 1000
    /\ ClientReturned("timeout") => now - start_time > timeout

C14_Witness ==
    /\ ClientReturned("completed")
    /\ Len(polls) = 3
    /\ PollCode(1) = 404
    /\ PollCode(2) = 404
    /\ sleeps = 2
    /\ cresult.duration_ms >= 2000

\* C15: when the submit POST raises (network error or non-2xx), run_script
\* has returned failed with the cause as error, after one POST, no status
\* query and no sleep, whatever wait is.
C15_SubmissionFailureTerminal ==
    PostFailed =>
        /\ ClientReturned("failed")
        /\ cresult.error = Atom(post[Len(post)].outcome.message)
        /\ cresult.result = None
        /\ Len(post) = 1
        /\ polls = <<>>
        /\ sleeps = 0

C15_Witness ==
    /\ ClientReturned("failed")
    /\ wait
    /\ timeout = 2
    /\ PostFailed
    /\ post[1].outcome.kind = "status"

\* C16: with wait false and an accepted submission, run_script returns
\* status running with the backend's job id (quotes stripped) and no result,
\* without any status query or sleep.
C16_NonBlockingSubmission ==
    (ClientDone /\ ~wait /\ PostOk) =>
        /\ ClientReturned("running")
        /\ cresult.job_id = "j1"
        /\ cresult.result = None
        /\ cresult.error = None
        /\ polls = <<>>
        /\ sleeps = 0

C16_Witness ==
    /\ ClientReturned("running")
    /\ ~wait
    /\ post[1].outcome.text = <<"\"", "j", "1", "\"">>
    /\ cresult.job_id = "j1"

\* C17: a status query that raises a network error never ends the call as
\* failed: a failed result after an accepted submission comes from a status
\* code other than 200 and 404; every raised or 404 query is followed by one
\* sleep before the next query; with only such queries the call ends timeout,
\* and with a later 200 it ends completed.
C17_PollErrorsNotFatal ==
    /\ (ClientReturned("failed") /\ PostOk) =>
          /\ polls # <<>>
          /\ PollCode(Len(polls)) \notin {0, 200, 404}
    /\ \A j \in 1..Len(polls) :
          PollRaised(j) =>
              /\ cpc \in {"sleeping", "loop", "polling", "done"}
              /\ j < Len(polls) => polls[j + 1].at >= polls[j].at + 1
              /\ (ClientDone /\ j = Len(polls)) => ClientReturned("timeout")
    /\ cpc \in {"loop", "done"} =>
          sleeps = Cardinality({ j \in 1..Len(polls) : NotReady(j) })
    /\ (ClientDone /\ LastPollReady) => ClientReturned("completed")

C17_Witness ==
    /\ ClientReturned("completed")
    /\ Len(polls) = 2
    /\ PollRaised(1)
    /\ sleeps = 1

\* C18: a status code other than 200 and 404 ends the call at once: it is
\* the last status query, the result is failed with "Unexpected status:
\* <code>", and no sleep follows it.
C18_UnexpectedStatusTerminal ==
    \A j \in 1..Len(polls) :
        PollCode(j) \notin {0, 200, 404} =>
            /\ j = Len(polls)
            /\ ClientReturned("failed")
            /\ cresult.error = Atom("Unexpected status: " \o ToString(PollCode(j)))
            /\ sleeps = j - 1

C18_Witness ==
    /\ ClientReturned("failed")
    /\ timeout = 2
    /\ Len(polls) = 1
    /\ PollCode(1) = 500
    /\ now - start_time = 0

\* C19: no status query is sent once more than timeout has elapsed since
\* _wait_for_job started; a loop iteration over budget returns timeout
\* without a request; and after run_script returned no request is sent.
C19_TimeoutBeforeEveryPoll ==
    /\ [](\A j \in 1..Len(polls) : polls[j].at - start_time <= timeout)
    /\ [][ (cpc = "loop" /\ now - start_time > timeout) =>
              /\ cpc' = "done"
              /\ cresult'.status = "timeout"
              /\ polls' = polls
              /\ post' = post ]_vars
    /\ [][ ClientDone => (polls' = polls /\ post' = post) ]_vars

C19_Witness ==
    /\ ClientReturned("timeout")
    /\ timeout = 1
    /\ Len(polls) = 2
    /\ polls[2].at - start_time = 1
    /\ now - start_time > timeout

\* C20: _execute_step and execute_single_script call with wait true, so the
\* result they receive is completed, failed or timeout; running is returned
\* only to a caller that passed wait false.
C20_NeverRunning ==
    /\ caller \in {"_execute_step", "execute_single_script"} =>
          /\ wait
          /\ (ClientDone /\ "status" \in DOMAIN cresult) =>
                cresult.status \in {"completed", "failed", "timeout"}
    /\ ClientReturned("running") => ~wait
    /\ \A j \in 1..Len(jobs) : jobs[j].wait

C20_Witness ==
    /\ caller = "execute_single_script"
    /\ ClientReturned("completed")
    /\ PostOk

\* C29: on a completed result duration_ms is the wall-clock time from the
\* moment the submit POST was sent to the moment the terminal 200 answer was
\* observed, submit call and final status query included.
C29_DurationIsWallClock ==
    ClientReturned("completed") =>
        cresult.duration_ms = (now - post[1].at) * 1000

(* ---------------------------------------------------------------------- *)
(* Properties of the service around _execute_plan                          *)
(* ---------------------------------------------------------------------- *)
\* process has just built its plan from the message
PlanBuilt == pc = "call" /\ plan_ref # 0

\* C27: plan round trip. The plan process rebuilds from the planner's dump
\* has the task_id and status of the plan that was dumped and the same steps
\* in the same order, each with identical step_number, script_path,
\* input_params, depends_on, status, result and error.
C27_PlanRoundTrip ==
    PlanBuilt =>
        /\ plan.task_id = planned.task_id
        /\ plan.status = planned.status
        /\ Len(plan.steps) = Len(planned.steps)
        /\ \A k \in 1..Len(planned.steps) :
              /\ DOMAIN plan.steps[k] = StepFields
              /\ \A f \in StepFields : plan.steps[k][f] = planned.steps[k][f]

C27_Witness ==
    /\ PlanBuilt
    /\ Len(plan.steps) = 2
    /\ plan.status = EXECUTING
    /\ plan.steps[1].status = COMPLETED
    /\ plan.steps[1].result = Atom("r0")
    /\ plan.steps[2].status = FAILED
    /\ plan.steps[2].error = Atom("e0")
    /\ plan.steps[2].depends_on = {1, 2}
    /\ plan.steps[2].input_params = ClashParams
    /\ plan.steps[2].script_path = None

Answered == tpc = "answered"

\* executor_agent.process handed its reply back to create_task
ExecutorReplied == pc = "replied"

\* the moves of create_task from one stage to the next
StageOrder ==
    { <<"coordinator", "planner">>, <<"planner", "planner_reply">>,
      <<"planner_reply", "executor">> }

WellFormedResponse(r) ==
    /\ DOMAIN r = ResponseFields
    /\ r.status \in {COMPLETED, FAILED}
    /\ r.steps_completed \in Nat
    /\ r.total_steps \in Nat
    /\ r.steps_completed <= r.total_steps

\* C23: create_task always answers with a well-formed TaskResponse. It goes
\* through coordinator, planner and executor in that order; it never ends by
\* raising; when a stage raised before the executor replied the answer is
\* failed with the exception text as error; and a failed executor result is
\* answered as failed with the same error, steps_completed and total_steps.
C23_EndpointAlwaysAnswers ==
    /\ [](tpc \in {"coordinator", "planner", "planner_reply", "executor", "answered"})
    /\ [](~Answered => ENABLED TaskNext)
    /\ [][ tpc' # tpc => (<<tpc, tpc'>> \in StageOrder \/ tpc' = "answered") ]_vars
    /\ [](Answered =>
            /\ WellFormedResponse(task_response)
            /\ ~ExecutorReplied =>
                  /\ task_response.status = FAILED
                  /\ \E msg \in StageErrors : task_response.error = Atom(msg)
            /\ ExecutorReplied =>
                  \/ /\ task_response.status = FAILED
                     /\ task_response.task_id = ""
                     /\ \E msg \in StageErrors : task_response.error = Atom(msg)
                  \/ /\ task_response.status = response.status
                     /\ task_response.task_id = response.task_id
                     /\ task_response.error = response.error
                     /\ task_response.result = response.result
                     /\ task_response.steps_completed = response.steps_completed
                     /\ task_response.total_steps = response.total_steps)

C23_Witness ==
    /\ Answered
    /\ ExecutorReplied
    /\ response.status = FAILED
    /\ task_response.status = FAILED
    /\ task_response.task_id = plan.task_id
    /\ task_response.error = response.error
    /\ task_response.steps_completed = 1
    /\ task_response.total_steps = 2

\* a call whose _execute_plan has returned left its plan, the args it sent and
\* its TaskResponse as a run on its own would, given the same answers
MatchesAlone(frame, object) ==
    LET alone == RunAlone(RebuildPlan(PlanData(frame.message)),
                          [j \in 1..Len(frame.jobs) |-> frame.jobs[j].outcome])
    IN  /\ object = alone.plan
        /\ [j \in 1..Len(frame.jobs) |-> frame.jobs[j].args] = alone.sent
        /\ frame.response = alone.response

\* step numbers under which the plan of a call holds a completed step
CompletedNumbers(object) ==
    { object.steps[k].step_number :
        k \in { q \in 1..Len(object.steps) : object.steps[q].status = COMPLETED } }

\* C25: independent executions do not interfere. When two process calls are
\* interleaved on the singleton executor, each call has, when _execute_plan
\* returns and when both calls have replied, the step statuses, sent inputs
\* and TaskResponse of a run on its own with the same answers, and the
\* results a call holds for its dependency checks are at all times those of
\* its own completed steps only.
C25_NoInterference ==
    /\ pc = "done" => MatchesAlone(Frame, plan)
    /\ (pc = "replied" /\ parked.pc = "replied") =>
          /\ MatchesAlone(Frame, plan)
          /\ MatchesAlone(parked, Object(parked.plan_ref))
    /\ plan_ref # 0 => DOMAIN step_results = CompletedNumbers(plan)
    /\ parked.plan_ref # 0 =>
          DOMAIN parked.step_results = CompletedNumbers(Object(parked.plan_ref))

C25_Witness ==
    /\ running = 2
    /\ planned[1] # planned[2]
    /\ pc = "replied"
    /\ plan.steps[1].depends_on = {1}
    /\ response.error = Atom("Step 1 dependencies not met")
    /\ parked.pc = "await"
    /\ Len(parked.jobs) = 2
    /\ 1 \in DOMAIN parked.step_results

\* C26: two overlapping process calls never work on the same ExecutionPlan
\* object, also when their messages carry the same plan data: each call binds
\* a newly built object, and no step of the running call changes the plan of
\* the suspended one.
C26_PrivatePlanCopy ==
    /\ []((plan_ref # 0 /\ parked.plan_ref # 0) => plan_ref # parked.plan_ref)
    /\ [][ (running' = running /\ parked.plan_ref # 0) =>
              Object(parked.plan_ref)' = Object(parked.plan_ref) ]_vars

C26_Witness ==
    /\ running = 2
    /\ planned[1] = planned[2]
    /\ pc = "await"
    /\ parked.pc = "await"
    /\ plan_ref # parked.plan_ref
    /\ plan.steps[1].status = EXECUTING
    /\ Object(parked.plan_ref).steps[1].status = COMPLETED

\* the planner has produced its plan
Planned == tpc \in {"planner_reply", "executor", "answered"} /\ planned # None

\* C31: planner-built plans are well-formed. For every skill and request text
\* the steps of the plan _create_plan produced are numbered 1..n in sequence
\* order, every depends_on entry names a step that comes earlier in the plan,
\* and while such a plan is executed the dependency check of the step at hand
\* never fails, so no execution ends with a "dependencies not met" error.
C31_PlannerPlansWellFormed ==
    /\ Planned =>
          \A k \in 1..Len(planned.steps) :
              /\ planned.steps[k].step_number = k
              /\ planned.steps[k].depends_on \subseteq 1..(k - 1)
    /\ ~ENABLED DependenciesNotMet
    /\ \A n \in 1..MaxStepNum : error # Atom(DepsNotMetMessage(n))

C31_Witness ==
    /\ Planned
    /\ coord_result.skill = "social_media"
    /\ Len(planned.steps) = 2
    /\ planned.steps[2].depends_on = {1}
    /\ pc = "await"
    /\ idx = 2
    /\ plan.steps[2].status = EXECUTING

\* the skill falls to the default branch of _create_plan
DefaultSkill == coord_result.skill \notin {"social_media", "analytics"}

\* C32: the default plan logs the activity. For every skill other than
\* social_media and analytics (workflow, core and unknown tags included) the
\* plan has exactly one step, that step is bound to the core log_activity
\* script, and executing it submits a remote job instead of passing through.
C32_DefaultPlanLogs ==
    (Planned /\ DefaultSkill) =>
        /\ Len(planned.steps) = 1
        /\ planned.steps[1].script_path = Atom(SkillScripts["core"]["log_activity"])
        /\ ~ENABLED Passthrough

\* the planner produced a plan without steps
EmptyPlanned == Planned /\ planned.steps = <<>>

\* what an execution that ran nothing reports
NothingRan(task_id) == TaskResponse(task_id, COMPLETED, None, None, 0, 0)

\* C33: empty plan. When the planner produced a plan with no steps, executing
\* it begins no step and submits no remote job, _execute_plan returns status
\* completed with steps_completed 0, total_steps 0, no result and no error,
\* and the answer create_task maps from the executor's reply reports
\* completed with the same counts.
C33_EmptyPlanCompletes ==
    /\ [](EmptyPlanned =>
            /\ started = <<>>
            /\ jobs = <<>>
            /\ post = <<>>
            /\ response # None => response = NothingRan(planned.task_id))
    /\ [][ (EmptyPlanned /\ TaskAnswers) =>
              task_response' = NothingRan(planned.task_id) ]_vars

C33_Witness ==
    /\ EmptyPlanned
    /\ coord_result.skill = "social_media"
    /\ request.content = {"report"}
    /\ Answered
    /\ ExecutorReplied
    /\ task_response.status = COMPLETED
    /\ task_response.total_steps = 0
    /\ jobs = <<>>

\* C34: a missing plan is reported as a failure end to end. When process gets
\* a message whose context has no plan it begins no step and submits no job,
\* its reply carries an error and no result, and the TaskResponse create_task
\* maps from that reply has status failed.
C34_MissingPlanFails ==
    ~HasPlan(message) =>
        /\ started = <<>>
        /\ jobs = <<>>
        /\ post = <<>>
        /\ ExecutorReplied =>
              /\ "error" \in DOMAIN reply
              /\ "result" \notin DOMAIN reply
        /\ Answered => task_response.status = FAILED

====
